---- MODULE Spec2Model ----
(***************************************************************************)
(* A model of the BFV kernel of fhe.rs: secret-key encryption, decryption  *)
(* and noise measurement (crates/fhers/src/bfv/keys/secret_key.rs), key    *)
(* switching keys (crates/bfv/src/keys/key_switching_key.rs), plaintexts   *)
(* (crates/fhe/src/bfv/plaintext.rs) and the NTT operator                  *)
(* (crates/fhe-math/src/ntt/native.rs).                                    *)
(*                                                                         *)
(* Polynomials live in Z_Q[x]/(x^n + 1), stored per RNS limb, tagged with  *)
(* a representation and the variable-time flag.  The ring arithmetic, the  *)
(* RNS context and the scaler are code of the math crate; they are         *)
(* modelled here by what they compute.                                     *)
(***************************************************************************)
EXTENDS Integers, Sequences, FiniteSets, TLC

VARIABLES
    mode,      \* the component a run exercises: "sk", "ksk" or "pt"
    sk,        \* the SecretKey: [par, s, s_coefficients]
    pt,        \* the plaintext last handed to try_encrypt
    ct,        \* the ciphertext last produced: [par, seed, c], or NoValue
    res,       \* the result of the last secret-key operation
    freed,     \* the temporaries released by the last operation, as they were released
    oplog,     \* the arithmetic steps and flag changes of the last operation
    ksk,       \* the KeySwitchingKey under use, or NoValue
    ksin,      \* what the key was generated from: [from, e]
    ksres,     \* the result of the last key-switching operation
    ptx,       \* the plaintext under use in the plaintext operations
    ptres,     \* the result of the last plaintext operation
    err,       \* the error vector the sampler drew for ct, or NoValue
    ntt,       \* the NttOperator under use: [p, size], or NoValue
    arr,       \* the array the operator works on in place
    nttres     \* the last two calls on the operator

vars == <<mode, sk, pt, ct, res, freed, oplog, ksk, ksin, ksres, ptx, ptres,
          err, ntt, arr, nttres>>

NoValue == [kind |-> "None"]

-----------------------------------------------------------------------------
(* Bounds of the model *)

\* a seed is an array of SeedLen bytes (32 in the program), each byte in Bytes
SeedLen == 1
Bytes == 0..1

-----------------------------------------------------------------------------
(* Modular arithmetic (zq::Modulus) *)

RECURSIVE PowMod(_, _, _)
PowMod(b, e, q) == IF e = 0 THEN 1 % q ELSE (b * PowMod(b, e - 1, q)) % q

InvMod(a, q) == CHOOSE x \in 0..(q - 1) : (a * x) % q = 1 % q

IsPrime(p) == p > 1 /\ \A d \in 2..(p - 1) : p % d # 0

RECURSIVE Product(_)
Product(ms) == IF ms = <<>> THEN 1 ELSE Head(ms) * Product(Tail(ms))

RECURSIVE SumSeq(_)
SumSeq(xs) == IF xs = <<>> THEN 0 ELSE Head(xs) + SumSeq(Tail(xs))

\* Modulus::reduce_vec
reduce_vec(q, v) == [j \in DOMAIN v |-> v[j] % q]

\* number of bits of a natural number (BigUint::bits)
RECURSIVE bits(_)
bits(x) == IF x = 0 THEN 0 ELSE 1 + bits(x \div 2)

Min(a, b) == IF a < b THEN a ELSE b
Max(a, b) == IF a > b THEN a ELSE b

-----------------------------------------------------------------------------
(* The NTT plan of one (modulus, size): the negacyclic transform *)

\* ntt::supports_ntt: p is a prime with p = 1 mod 2 * size
supports_ntt(p, size) == IsPrime(p) /\ p % (2 * size) = 1

\* the primitive 2n-th root of unity the plan uses
Psi(q, n) == CHOOSE x \in 1..(q - 1) : PowMod(x, n, q) = q - 1

\* the plan's table of twiddle factors: psi^e and psi^-e for e < 2n
Twiddles(q, n) ==
    [fwd |-> [e \in 0..(2 * n - 1) |-> PowMod(Psi(q, n), e, q)],
     inv |-> [e \in 0..(2 * n - 1) |-> PowMod(InvMod(Psi(q, n), q), e, q)],
     ninv |-> InvMod(n % q, q)]

\* the plans of the moduli in use, built once
PlanDegree == 2
PlanModuli == {5, 13, 17, 61, 97, 101}
Plans == [q \in PlanModuli |-> Twiddles(q, PlanDegree)]

\* the plans of a second size, for the operator on its own
NttSize == 4
NttSizeModuli == {17}
NttSizePlans == [q \in NttSizeModuli |-> Twiddles(q, NttSize)]
PlanOf(q, n) == IF n = PlanDegree THEN Plans[q] ELSE NttSizePlans[q]

\* Plan::fwd: evaluation at the odd powers of psi
PlanFwd(a, q) ==
    LET n == Len(a)
    IN [k \in 1..n |->
          SumSeq([j \in 1..n |->
              (a[j] % q) * PlanOf(q, n).fwd[((2 * k - 1) * (j - 1)) % (2 * n)]]) % q]

\* Plan::inv: the unnormalised inverse (n times the coefficients)
PlanInv(a, q) ==
    LET n == Len(a)
    IN [j \in 1..n |->
          SumSeq([k \in 1..n |->
              (a[k] % q) * PlanOf(q, n).inv[((2 * k - 1) * (j - 1)) % (2 * n)]]) % q]

\* Plan::normalize: multiplication by n^-1
PlanNormalize(a, q) == [j \in DOMAIN a |-> (a[j] * PlanOf(q, Len(a)).ninv) % q]

-----------------------------------------------------------------------------
(* Contexts and parameter sets *)

Context(degree, moduli) == [degree |-> degree, moduli |-> moduli]

\* BfvParameters: the fields the kernel reads
BfvParameters(degree, moduli, t, variance) ==
    [degree |-> degree, ciphertext_moduli |-> moduli, plaintext |-> t,
     variance |-> variance]

\* ctx_at_level: level l drops the last l moduli; Err beyond the chain
NumLevels(par) == Len(par.ciphertext_moduli)
ctx_at_level(par, level) ==
    IF level < NumLevels(par)
    THEN [ok |-> TRUE,
          ctx |-> Context(par.degree,
                          SubSeq(par.ciphertext_moduli, 1, NumLevels(par) - level))]
    ELSE [ok |-> FALSE, err |-> "DefaultError: No context"]

ParCtx(par) == Context(par.degree, par.ciphertext_moduli)

\* par.q_mod_t[level] and par.delta[level] (= -1/t mod Q_level)
ParTables(par) ==
    [level \in 0..(NumLevels(par) - 1) |->
        LET Q == Product(ctx_at_level(par, level).ctx.moduli)
        IN [q_mod_t |-> Q % par.plaintext,
            delta |-> (Q - InvMod(par.plaintext % Q, Q)) % Q]]

\* par.op: the NTT operator modulo the plaintext modulus, when supported
HasOp(par) == supports_ntt(par.plaintext, par.degree)

\* the parameter sets of the model
ParA == BfvParameters(PlanDegree, <<5, 13>>, 2, 1)
ParB == BfvParameters(PlanDegree, <<13>>, 2, 1)
ParS == BfvParameters(PlanDegree, <<13, 17>>, 5, 1)
ParK == BfvParameters(PlanDegree, <<97, 101>>, 2, 1)
ParK1 == BfvParameters(PlanDegree, <<97>>, 2, 1)
Tables == [par \in {ParA, ParB, ParS, ParK, ParK1} |-> ParTables(par)]
q_mod_t(par, level) == Tables[par][level].q_mod_t
delta(par, level) == Tables[par][level].delta

-----------------------------------------------------------------------------
(* Polynomials (rq::Poly) *)

Reps == {"PowerBasis", "Ntt", "NttShoup"}
IsNtt(rep) == rep \in {"Ntt", "NttShoup"}

MkPoly(ctx, rep, vt, coeffs) ==
    [ctx |-> ctx, representation |-> rep,
     allow_variable_time_computations |-> vt, coefficients |-> coeffs]

NLimbs(p) == Len(p.coefficients)

\* Poly::zero
PolyZero(ctx, rep) ==
    MkPoly(ctx, rep, FALSE,
           [i \in 1..Len(ctx.moduli) |-> [j \in 1..ctx.degree |-> 0]])

\* Poly::try_convert_from(&[u64] / &[i64], ctx, variable_time, PowerBasis):
\* every value reduced modulo every modulus; Err unless there are degree values
PolyFromValues(v, ctx, vt) ==
    MkPoly(ctx, "PowerBasis", vt,
           [i \in 1..Len(ctx.moduli) |-> [j \in 1..ctx.degree |-> v[j] % ctx.moduli[i]]])

\* change_representation
change_representation(p, to) ==
    LET q(i) == p.ctx.moduli[i]
        from == p.representation
    IN IF IsNtt(from) = IsNtt(to)
       THEN [p EXCEPT !.representation = to]
       ELSE IF IsNtt(to)
       THEN [p EXCEPT !.representation = to,
                      !.coefficients = [i \in 1..NLimbs(p) |-> PlanFwd(p.coefficients[i], q(i))]]
       ELSE [p EXCEPT !.representation = to,
                      !.coefficients = [i \in 1..NLimbs(p) |->
                          PlanNormalize(PlanInv(p.coefficients[i], q(i)), q(i))]]

allow_variable_time_computations(p) ==
    [p EXCEPT !.allow_variable_time_computations = TRUE]
disallow_variable_time_computations(p) ==
    [p EXCEPT !.allow_variable_time_computations = FALSE]

\* the variable-time code path is taken when either operand allows it
UsesVt(p, q) == p.allow_variable_time_computations \/ q.allow_variable_time_computations

\* p + q, p - q (same representation), p * q (both in an NTT form): limb-wise;
\* the result allows variable time as soon as one operand does
PolyAdd(p, q) ==
    [p EXCEPT !.allow_variable_time_computations = UsesVt(p, q),
              !.coefficients = [i \in 1..NLimbs(p) |-> [j \in 1..p.ctx.degree |->
        (p.coefficients[i][j] + q.coefficients[i][j]) % p.ctx.moduli[i]]]]
PolySub(p, q) ==
    [p EXCEPT !.allow_variable_time_computations = UsesVt(p, q),
              !.coefficients = [i \in 1..NLimbs(p) |-> [j \in 1..p.ctx.degree |->
        (p.coefficients[i][j] - q.coefficients[i][j]) % p.ctx.moduli[i]]]]
PolyMul(p, q) ==
    [p EXCEPT !.representation = "Ntt",
              !.allow_variable_time_computations = UsesVt(p, q),
              !.coefficients = [i \in 1..NLimbs(p) |-> [j \in 1..p.ctx.degree |->
        (p.coefficients[i][j] * q.coefficients[i][j]) % p.ctx.moduli[i]]]]

\* &BigUint * &Poly: every coefficient times the scalar
PolyScalarMul(g, p) ==
    [p EXCEPT !.coefficients = [i \in 1..NLimbs(p) |-> [j \in 1..p.ctx.degree |->
        ((g % p.ctx.moduli[i]) * p.coefficients[i][j]) % p.ctx.moduli[i]]]]

\* Zeroize for Poly: the coefficients are overwritten with zeros
PolyZeroize(p) ==
    [p EXCEPT !.coefficients = [i \in 1..NLimbs(p) |-> [j \in 1..p.ctx.degree |-> 0]]]

IsZeroPoly(p) == \A i \in 1..NLimbs(p) : \A j \in 1..Len(p.coefficients[i]) :
                    p.coefficients[i][j] = 0

-----------------------------------------------------------------------------
(* RnsContext *)

\* the Garner coefficients RnsContext::new computes:
\* (Q / q_i) * ((Q / q_i)^-1 mod q_i)
Garner(moduli) ==
    [i \in 1..Len(moduli) |->
        LET Qi == Product(moduli) \div moduli[i]
        IN Qi * InvMod(Qi % moduli[i], moduli[i])]

\* the RNS contexts of the moduli chains in use, built once
RnsChains == {<<5, 13>>, <<5>>, <<13>>, <<13, 17>>, <<97, 101>>, <<97>>}
RnsContexts == [ms \in RnsChains |-> [garner |-> Garner(ms), modulus |-> Product(ms)]]

\* RnsContext::get_garner(i) and RnsContext::modulus()
get_garner(moduli, i) == RnsContexts[moduli].garner[i]
RnsModulus(moduli) == RnsContexts[moduli].modulus

\* the integer in [0, Q) with the given residues
Lift(moduli, residues) ==
    SumSeq([i \in 1..Len(moduli) |-> residues[i] * get_garner(moduli, i)])
        % RnsModulus(moduli)

\* Vec<BigUint>::from(&Poly): the coefficients of a PowerBasis polynomial
ToBigUint(p) ==
    [j \in 1..p.ctx.degree |->
        Lift(p.ctx.moduli, [i \in 1..NLimbs(p) |-> p.coefficients[i][j]])]

\* Vec<u64>::from(&Poly): the limbs one after the other
ToU64(p) ==
    [k \in 1..(NLimbs(p) * p.ctx.degree) |->
        p.coefficients[((k - 1) \div p.ctx.degree) + 1][((k - 1) % p.ctx.degree) + 1]]

Center(x, Q) == IF 2 * x > Q THEN x - Q ELSE x

\* Scaler::scale(p, false): round(t * x / Q) of the centred coefficients
ScalerScale(par, p) ==
    LET Q == RnsModulus(p.ctx.moduli)
        big == ToBigUint(p)
        y(j) == (2 * par.plaintext * Center(big[j], Q) + Q) \div (2 * Q)
    IN MkPoly(p.ctx, "PowerBasis", p.allow_variable_time_computations,
              [i \in 1..NLimbs(p) |-> [j \in 1..p.ctx.degree |-> y(j) % p.ctx.moduli[i]]])

-----------------------------------------------------------------------------
(* Randomness: seeds, the seeded generator and the small-coefficient sampler *)

Seeds == [1..SeedLen -> Bytes]

RECURSIVE SeedInt(_)
SeedInt(seed) ==
    IF seed = <<>> THEN 0 ELSE Head(seed) + Cardinality(Bytes) * SeedInt(Tail(seed))

\* Poly::random_from_seed: the coefficients are a fixed function of the seed
random_from_seed(ctx, rep, seed) ==
    MkPoly(ctx, rep, FALSE,
           [i \in 1..Len(ctx.moduli) |-> [j \in 1..ctx.degree |->
               (3 * SeedInt(seed) + 5 * j + 2 * i + 1) % ctx.moduli[i]]])

\* the i-th output of ChaCha8Rng::from_seed(seed) filling a seed-sized array
rng_fill(seed, i) ==
    [k \in 1..Len(seed) |-> (seed[k] + i + k) % Cardinality(Bytes)]

\* sample_vec_cbd(degree, variance): coefficients in -2*variance .. 2*variance
SmallVecs(par) == [1..par.degree -> (0 - 2 * par.variance)..(2 * par.variance)]

\* Poly::small: the sampled vector e as a polynomial
PolySmall(ctx, rep, e) == change_representation(PolyFromValues(e, ctx, FALSE), rep)

-----------------------------------------------------------------------------
(* Plaintexts (plaintext.rs) *)

Some(x) == [kind |-> "Some", v |-> x]
Encoding(enc, level) == [encoding |-> enc, level |-> level]

\* the level of a plaintext; the plaintext built by try_decrypt carries none
LevelOf(p) == IF "level" \in DOMAIN p THEN p.level ELSE 0

\* Modulus::scalar_mul_vec
scalar_mul_vec(q, v, x) == [j \in DOMAIN v |-> (v[j] * x) % q]

\* Plaintext::to_poly
to_poly(p) ==
    LET level == LevelOf(p)
        m_v == scalar_mul_vec(p.par.plaintext, p.value, q_mod_t(p.par, level))
        c == ctx_at_level(p.par, level)
    IN IF ~c.ok THEN [ok |-> FALSE, err |-> c.err]
       ELSE IF Len(m_v) # c.ctx.degree
       THEN [ok |-> FALSE, err |-> "Math: invalid number of coefficients"]
       ELSE [ok |-> TRUE,
             poly |-> PolyScalarMul(delta(p.par, level),
                         change_representation(PolyFromValues(m_v, c.ctx, FALSE), "Ntt"))]

\* impl PartialEq for Plaintext
PlaintextEq(a, b) ==
    LET eq1 == a.par = b.par
        eq2 == eq1 /\ a.value = b.value
    IN IF a.encoding # NoValue /\ b.encoding # NoValue
       THEN eq2 /\ a.encoding.v = b.encoding.v
       ELSE eq2

\* par.matrix_reps_index_map: the slot order, from the powers of 3 modulo 2n,
\* bit-reversed (indices from 0)
RECURSIVE BitRev(_, _)
BitRev(x, nbits) ==
    IF nbits = 0 THEN 0 ELSE (x % 2) * (2 ^ (nbits - 1)) + BitRev(x \div 2, nbits - 1)
RECURSIVE Log2(_)
Log2(n) == IF n <= 1 THEN 0 ELSE 1 + Log2(n \div 2)
matrix_reps_index_map(par) ==
    LET n == par.degree
        row == n \div 2
        pos(i) == PowMod(3, i, 2 * n)
    IN [k \in 0..(n - 1) |->
          IF k < row THEN BitRev((pos(k) - 1) \div 2, Log2(n))
          ELSE BitRev((2 * n - pos(k - row) - 1) \div 2, Log2(n))]

\* NttOperator::forward and backward of the operator of modulus q (native.rs)
forward(q, a) == PlanFwd(a, q)
backward_unnormalized(q, a) == PlanInv(a, q)
backward(q, a) == PlanNormalize(PlanInv(a, q), q)

\* machine words: u64 in the program, WordBits bits here
WordBits == 8
Word == 2 ^ WordBits
WrapMul(x, y) == (x * y) % Word
WrapSub(x, y) == (x - y) % Word

\* Modulus::new accepts a modulus below a quarter of the word range
ModulusOk(p) == p >= 2 /\ 4 * p < Word

\* NttOperator::new(p, size): None unless p supports the NTT of this size and
\* a plan can be built
NttOperator_new(p, size) ==
    IF ~supports_ntt(p, size) THEN NoValue
    ELSE IF (size = PlanDegree /\ p \in PlanModuli) \/ (size = NttSize /\ p \in NttSizeModuli)
    THEN Some([p |-> p, size |-> size])
    ELSE NoValue

\* Modulus::reduce1_vt(a, p): one conditional subtraction
reduce1_vt(a, p) == IF a >= p THEN WrapSub(a, p) ELSE a

\* NttOperator::reduce3_vt(a)
reduce3_vt_once(q, a) ==
    IF ~(a < WrapMul(4, q)) THEN [kind |-> "Abort"]
    ELSE [kind |-> "Ok", v |-> reduce1_vt(a, q)]
reduce3_vt(q, a) ==
    IF ~(a < WrapMul(4, q)) THEN [kind |-> "Abort"]
    ELSE LET y == reduce1_vt(a, WrapMul(2, q))
         IN [kind |-> "Ok", v |-> reduce1_vt(y, q)]

\* NttOperator::forward_vt_lazy, forward_vt and backward_vt
forward_vt_lazy(q, a) == PlanFwd(a, q)
forward_vt(q, a) ==
    LET lazy == forward_vt_lazy(q, a)
    IN IF \E i \in DOMAIN lazy : reduce3_vt(q, lazy[i]).kind = "Abort"
       THEN [kind |-> "Abort"]
       ELSE [kind |-> "Ok", a |-> [i \in DOMAIN lazy |-> reduce3_vt(q, lazy[i]).v]]
backward_vt(q, a) == PlanNormalize(PlanInv(a, q), q)

\* Plaintext::try_encode(&[u64], encoding, par): Poly keeps the values, Simd
\* places them in the slots and transforms back; Simd needs par.op
try_encode(value, encoding, par) ==
    IF Len(value) > par.degree
    THEN [ok |-> FALSE, err |-> "TooManyValues"]
    ELSE LET padded == [j \in 1..par.degree |->
                          IF j <= Len(value) THEN value[j] % par.plaintext ELSE 0]
             map == matrix_reps_index_map(par)
             slots == [j \in 1..par.degree |->
                          padded[(CHOOSE i \in 0..(par.degree - 1) : map[i] = j - 1) + 1]]
             c == ctx_at_level(par, encoding.level)
         IN IF ~c.ok THEN [ok |-> FALSE, err |-> c.err]
            ELSE IF encoding.encoding = "Simd" /\ ~HasOp(par)
            THEN [ok |-> FALSE, err |-> "EncodingNotSupported"]
            ELSE LET v == IF encoding.encoding = "Simd"
                          THEN backward(par.plaintext, slots) ELSE padded
                 IN [ok |-> TRUE,
                     pt |-> [par |-> par, value |-> v, encoding |-> Some(encoding),
                             poly_ntt |-> change_representation(
                                              PolyFromValues(v, c.ctx, FALSE), "Ntt"),
                             level |-> encoding.level]]

\* Plaintext::try_encode(&[u64], Encoding::poly_at_level(level), par)
try_encode_poly(value, level, par) == try_encode(value, Encoding("Poly", level), par)

\* Plaintext::zero
Plaintext_zero(encoding, par) ==
    LET level == encoding.level
        c == ctx_at_level(par, level)
    IN IF ~c.ok THEN [ok |-> FALSE, err |-> c.err]
       ELSE [ok |-> TRUE,
             pt |-> [par |-> par, value |-> [j \in 1..par.degree |-> 0],
                     encoding |-> Some(encoding),
                     poly_ntt |-> PolyZero(c.ctx, "Ntt"), level |-> level]]

\* impl Zeroize for Plaintext: the boxed slice keeps its length
zeroize_clearing(p) ==
    [p EXCEPT !.value = <<>>, !.poly_ntt = PolyZeroize(p.poly_ntt)]
zeroize(p) ==
    [p EXCEPT !.value = [j \in DOMAIN p.value |-> 0],
              !.poly_ntt = PolyZeroize(p.poly_ntt)]

\* Vec<u64>::try_decode(pt, encoding), lines 150-164: the encoding to decode with
resolve_encoding_stored_first(p, encoding) ==
    IF p.encoding = NoValue /\ encoding = NoValue
    THEN [ok |-> FALSE, err |-> <<"UnspecifiedInput", "No encoding specified">>]
    ELSE IF p.encoding # NoValue
    THEN LET enc == p.encoding.v
         IN IF encoding # NoValue /\ encoding.v # enc
            THEN [ok |-> FALSE, err |-> <<"EncodingMismatch", enc, encoding.v>>]
            ELSE [ok |-> TRUE, enc |-> enc]
    ELSE [ok |-> TRUE, enc |-> encoding.v]
resolve_encoding(p, encoding) ==
    IF p.encoding = NoValue /\ encoding = NoValue
    THEN [ok |-> FALSE, err |-> <<"UnspecifiedInput", "No encoding specified">>]
    ELSE IF p.encoding # NoValue
    THEN LET enc == p.encoding.v
         IN IF encoding # NoValue /\ encoding.v # enc
            THEN [ok |-> FALSE, err |-> <<"EncodingMismatch", encoding.v, enc>>]
            ELSE [ok |-> TRUE, enc |-> enc]
    ELSE LET enc == encoding.v
         IN IF p.encoding # NoValue /\ p.encoding.v # enc
            THEN [ok |-> FALSE, err |-> <<"EncodingMismatch", p.encoding.v, enc>>]
            ELSE [ok |-> TRUE, enc |-> enc]

\* Vec<u64>::try_decode(pt, encoding)
try_decode(p, encoding) ==
    LET r == resolve_encoding(p, encoding)
    IN IF ~r.ok THEN r
       ELSE IF r.enc.encoding = "Poly" THEN [ok |-> TRUE, value |-> p.value]
       ELSE IF HasOp(p.par)
       THEN LET w == forward(p.par.plaintext, p.value)
                map == matrix_reps_index_map(p.par)
            IN [ok |-> TRUE, value |-> [i \in 1..p.par.degree |-> w[map[i - 1] + 1]]]
       ELSE [ok |-> FALSE, err |-> <<"EncodingNotSupported", "Simd">>]

-----------------------------------------------------------------------------
(* Bookkeeping of an operation: the arithmetic steps that involve the secret *)
(* key, the places the variable-time flag is set, the temporaries released   *)

\* an arithmetic step on secret-dependent operands p and q
Step(name, p, q) == [op |-> name, vt |-> UsesVt(p, q)]

\* allow_variable_time_computations on an output while the temporaries temps
\* hold what they hold
Allowed(target, temps) ==
    [op |-> "allow_vt", target |-> target,
     wiped |-> \A k \in DOMAIN temps : IsZeroPoly(temps[k])]

\* a polynomial temporary going out of scope
Released(name, p) == [name |-> name, zero |-> IsZeroPoly(p)]
\* a Vec<u64> temporary going out of scope
ReleasedVec(name, v) == [name |-> name, zero |-> \A j \in DOMAIN v : v[j] = 0]

Last(xs) == xs[Len(xs)]

-----------------------------------------------------------------------------
(* Secret keys (secret_key.rs) *)

\* SecretKey::new
SecretKey_new(s_coefficients, par) ==
    LET s == change_representation(
                 PolyFromValues(s_coefficients, ParCtx(par), FALSE), "NttShoup")
        s2 == change_representation(PolyMul(s, s), "NttShoup")
    IN [par |-> par, s |-> <<s, s2>>, s_coefficients |-> s_coefficients]

\* try_encrypt; e is the vector the error sampler draws
try_encrypt(key, p, seed, e) ==
    IF key.par # p.par THEN [kind |-> "Panic", freed |-> {}, oplog |-> <<>>]
    ELSE
    LET a == random_from_seed(ParCtx(key.par), "Ntt", seed)
        a_s == PolyMul(a, key.s[1])
        b0 == PolySmall(ParCtx(key.par), "Ntt", e)
        b1 == PolySub(b0, a_s)
        m == to_poly(p)
        log1 == <<Step("mul", a, key.s[1]), Step("sub", b0, a_s)>>
    IN IF ~m.ok
       THEN [kind |-> "Err", err |-> m.err,
             freed |-> {Released("a_s", a_s)}, oplog |-> log1]
       ELSE
       LET b2 == PolyAdd(b1, m.poly)
           a_s_z == PolyZeroize(a_s)
           m_z == PolyZeroize(m.poly)
           a_vt == allow_variable_time_computations(a)
           b_vt == allow_variable_time_computations(b2)
       IN [kind |-> "Ok",
           ct |-> [par |-> key.par, seed |-> Some(seed), c |-> <<b_vt, a_vt>>],
           freed |-> {Released("a_s", a_s_z), Released("m", m_z)},
           oplog |-> log1 \o <<Step("add", b1, m.poly),
                               Allowed("a", <<a_s_z, m_z>>),
                               Allowed("b", <<a_s_z, m_z>>)>>]

\* the test that the power list lacks the power iteration i reads
needs_power_eager(s, i) == Len(s) <= i
needs_power(s, i) == Len(s) < i

\* the loop of try_decrypt over ct.c[1..]: st = [c, s, freed, oplog]
RECURSIVE try_decrypt_loop(_, _, _)
try_decrypt_loop(i, ctc, st) ==
    IF i >= Len(ctc) THEN st
    ELSE
    LET grow == needs_power(st.s, i)
        s1 == IF grow THEN Append(st.s, PolyMul(Last(st.s), st.s[1])) ELSE st.s
        cis0 == disallow_variable_time_computations(ctc[i + 1])
        cis == PolyMul(cis0, s1[i])
        c1 == PolyAdd(st.c, cis)
        cis_z == PolyZeroize(cis)
    IN try_decrypt_loop(i + 1, ctc,
           [c |-> c1, s |-> s1,
            freed |-> st.freed \cup {Released("cis", cis_z)},
            oplog |-> st.oplog
                      \o (IF grow THEN <<Step("mul", Last(st.s), st.s[1])>> ELSE <<>>)
                      \o <<Step("mul", cis0, s1[i]), Step("add", st.c, cis)>>])

\* try_decrypt, from the scaled polynomial d to the value vector w: every
\* coefficient plus t, the first degree of them, reduced modulo the first
\* ciphertext modulus and then modulo t
scaled_to_value_no_q(par, d) ==
    LET v == [k \in DOMAIN ToU64(d) |-> ToU64(d)[k] + par.plaintext]
        w0 == SubSeq(v, 1, par.degree)
    IN reduce_vec(par.plaintext, w0)
scaled_to_value(par, d) ==
    LET v == [k \in DOMAIN ToU64(d) |-> ToU64(d)[k] + par.plaintext]
        w0 == SubSeq(v, 1, par.degree)
        w1 == reduce_vec(par.ciphertext_moduli[1], w0)
    IN reduce_vec(par.plaintext, w1)

\* try_decrypt: the test of the parameter sets
ParamsNeverDiffer(key, cipher) == FALSE
ParamsDiffer(key, cipher) == key.par # cipher.par

\* try_decrypt after the loop (lines 170-204): st is what the loop left
try_decrypt_scale(key, st) ==
    LET c == change_representation(st.c, "PowerBasis")
    IN IF c.ctx # ParCtx(key.par)
       THEN \* Scaler::scale fails on a polynomial of another context
            [kind |-> "Err", err |-> "Math: incompatible context",
             s |-> st.s, freed |-> st.freed \cup {Released("c", c)}, oplog |-> st.oplog]
       ELSE
       LET d == ScalerScale(key.par, c)
           w == scaled_to_value(key.par, d)
           poly == change_representation(PolyFromValues(w, ParCtx(key.par), FALSE), "Ntt")
           c_z == PolyZeroize(c)
           d_z == PolyZeroize(d)
           v_z == <<>>
       IN [kind |-> "Ok",
           pt |-> [par |-> key.par, value |-> w, encoding |-> NoValue, poly_ntt |-> poly],
           s |-> st.s,
           freed |-> st.freed \cup {Released("c", c_z), Released("d", d_z),
                                   ReleasedVec("v", v_z)},
           oplog |-> st.oplog \o <<[op |-> "result", vt |-> st.c.allow_variable_time_computations]>>]

\* try_decrypt
try_decrypt(key, cipher) ==
    IF ParamsDiffer(key, cipher)
    THEN [kind |-> "Err", err |-> "DefaultError: Incompatible BFV parameters",
          s |-> key.s, freed |-> {}, oplog |-> <<>>]
    ELSE try_decrypt_scale(key,
             try_decrypt_loop(1, cipher.c,
                 [c |-> disallow_variable_time_computations(cipher.c[1]),
                  s |-> key.s, freed |-> {}, oplog |-> <<>>]))

\* the loop of measure_noise over ct.c[1..]: st = [c, s, freed, oplog]
RECURSIVE measure_noise_loop(_, _, _)
measure_noise_loop(i, ctc, st) ==
    IF i >= Len(ctc) THEN st
    ELSE
    LET grow == needs_power(st.s, i)
        s1 == IF grow THEN Append(st.s, PolyMul(Last(st.s), st.s[1])) ELSE st.s
        cis0 == disallow_variable_time_computations(ctc[i + 1])
        cis == PolyMul(cis0, s1[i])
        c1 == PolyAdd(st.c, cis)
        cis_z == PolyZeroize(cis)
    IN measure_noise_loop(i + 1, ctc,
           [c |-> c1, s |-> s1,
            freed |-> st.freed \cup {Released("cis", cis_z)},
            oplog |-> st.oplog
                      \o (IF grow THEN <<Step("mul", Last(st.s), st.s[1])>> ELSE <<>>)
                      \o <<Step("mul", cis0, s1[i]), Step("add", st.c, cis)>>])

RECURSIVE MaxNoise(_, _)
MaxNoise(coeffs, Q) ==
    IF coeffs = <<>> THEN 0
    ELSE Max(MaxNoise(Tail(coeffs), Q), Min(bits(Head(coeffs)), bits(Q - Head(coeffs))))

\* measure_noise after the loop (lines 87-102): st is what the loop left
measure_noise_max_with_message(key, m, st) ==
    LET c == change_representation(st.c, "PowerBasis")
        noise == MaxNoise(ToBigUint(c), RnsModulus(key.par.ciphertext_moduli))
    IN [kind |-> "Ok", noise |-> noise, s |-> st.s,
        freed |-> st.freed \cup {Released("c", PolyZeroize(c)), Released("m", PolyZeroize(m))},
        oplog |-> st.oplog \o <<Step("sub", st.c, m)>>]
measure_noise_max(key, m, st) ==
    LET c1 == PolySub(st.c, m)
        c == change_representation(c1, "PowerBasis")
        noise == MaxNoise(ToBigUint(c), RnsModulus(key.par.ciphertext_moduli))
        c_z == PolyZeroize(c)
        m_z == PolyZeroize(m)
    IN [kind |-> "Ok", noise |-> noise, s |-> st.s,
        freed |-> st.freed \cup {Released("c", c_z), Released("m", m_z)},
        oplog |-> st.oplog \o <<Step("sub", st.c, m)>>]

\* measure_noise after the plaintext was decrypted and scaled (lines 69-102)
measure_noise_of(key, cipher, dec, m) ==
    IF ~m.ok
    THEN [kind |-> "Err", err |-> m.err, s |-> dec.s,
          freed |-> dec.freed, oplog |-> dec.oplog]
    ELSE measure_noise_max(key, m.poly,
             measure_noise_loop(1, cipher.c,
                 [c |-> disallow_variable_time_computations(cipher.c[1]),
                  s |-> dec.s, freed |-> dec.freed, oplog |-> dec.oplog]))

\* measure_noise
measure_noise_decrypted(key, cipher, dec) ==
    IF dec.kind # "Ok" THEN dec
    ELSE measure_noise_of(key, cipher, dec, to_poly(dec.pt))
measure_noise(key, cipher) ==
    measure_noise_decrypted(key, cipher, try_decrypt(key, cipher))

-----------------------------------------------------------------------------
(* The secret-key operations as actions *)

\* the number of polynomials of a ciphertext handed in from outside
MaxPolys == 4

\* a ciphertext received from outside: n public polynomials
ReceivedCiphertext(par, n) ==
    [par |-> par, seed |-> NoValue,
     c |-> [k \in 1..n |-> allow_variable_time_computations(
               MkPoly(ParCtx(par), "Ntt", FALSE,
                      [i \in 1..NumLevels(par) |-> [j \in 1..par.degree |->
                          (3 * k + 2 * j + i) % par.ciphertext_moduli[i]]]))]]

Idle == [op |-> "none"]

InitSk ==
    /\ mode = "sk"
    /\ sk \in {SecretKey_new(c, ParA) : c \in SmallVecs(ParA)}
    /\ pt = NoValue
    /\ ct = NoValue
    /\ res = Idle
    /\ err = NoValue
    /\ freed = {}
    /\ oplog = <<>>

\* sk.try_encrypt(pt) for a plaintext encoded from value.  try_encrypt reads
\* the key and leaves it as it is, so a run encrypts once, before anything else
Encrypt(value, seed, e) ==
    LET enc == try_encode_poly(value, 0, sk.par)
        r == try_encrypt(sk, enc.pt, seed, e)
    IN /\ mode = "sk"
       /\ pt = NoValue /\ ct = NoValue
       /\ enc.ok
       /\ pt' = enc.pt
       /\ ct' = IF r.kind = "Ok" THEN r.ct ELSE NoValue
       /\ err' = IF r.kind = "Ok" THEN e ELSE NoValue
       /\ res' = [op |-> "try_encrypt", kind |-> r.kind]
       /\ freed' = r.freed
       /\ oplog' = r.oplog
       /\ UNCHANGED <<mode, sk>>

\* a ciphertext arrives from outside
Receive(par, n) ==
    /\ mode = "sk"
    /\ ct' = ReceivedCiphertext(par, n)
    /\ err' = NoValue
    /\ pt' = NoValue
    /\ res' = Idle
    /\ freed' = {}
    /\ oplog' = <<>>
    /\ UNCHANGED <<mode, sk>>

\* sk.try_decrypt(ct)
Decrypt ==
    /\ mode = "sk"
    /\ ct # NoValue
    /\ \E r \in {try_decrypt(sk, ct)} :
          /\ sk' = [sk EXCEPT !.s = r.s]
          /\ res' = IF r.kind = "Ok"
                    THEN [op |-> "try_decrypt", kind |-> "Ok", pt |-> r.pt, before |-> sk]
                    ELSE [op |-> "try_decrypt", kind |-> "Err", err |-> r.err, before |-> sk]
          /\ freed' = r.freed
          /\ oplog' = r.oplog
    /\ UNCHANGED <<mode, pt, ct, err>>

\* sk.measure_noise(ct)
MeasureNoise ==
    /\ mode = "sk"
    /\ ct # NoValue
    /\ \E r \in {measure_noise(sk, ct)} :
          /\ sk' = [sk EXCEPT !.s = r.s]
          /\ res' = IF r.kind = "Ok"
                    THEN [op |-> "measure_noise", kind |-> "Ok", noise |-> r.noise, before |-> sk]
                    ELSE [op |-> "measure_noise", kind |-> "Err", err |-> r.err, before |-> sk]
          /\ freed' = r.freed
          /\ oplog' = r.oplog
    /\ UNCHANGED <<mode, pt, ct, err>>

kskVars == <<ksk, ksin, ksres>>
ptVars == <<ptx, ptres>>
skVars == <<pt, ct, res, err>>
nttVars == <<ntt, arr, nttres>>

-----------------------------------------------------------------------------
(* Key switching keys (key_switching_key.rs) *)

\* what stands for the sampler handing back Err instead of a vector
SamplerErr == <<>>

\* KeySwitchingKey::generate_c1
generate_c1(par, seed, size) ==
    [i \in 1..size |->
        allow_variable_time_computations(
            random_from_seed(ParCtx(par), "NttShoup", rng_fill(seed, i)))]

\* RnsContext::new fails unless the moduli are pairwise coprime
RECURSIVE Gcd(_, _)
Gcd(a, b) == IF b = 0 THEN a ELSE Gcd(b, a % b)
RnsContextOk(moduli) ==
    \A i, j \in 1..Len(moduli) : i # j => Gcd(moduli[i], moduli[j]) = 1

\* generate_c0, the body of the loop for limb i up to the sampling of b:
\* the clone of c1_i and its product with the secret key
generate_c0_mask_vt(key, c1i) ==
    LET a == c1i
        a_s == change_representation(PolyMul(a, key.s[1]), "PowerBasis")
    IN [a |-> a, a_s |-> a_s, oplog |-> <<Step("mul", a, key.s[1])>>]
generate_c0_mask(key, c1i) ==
    LET a == disallow_variable_time_computations(c1i)
        a_s == change_representation(PolyMul(a, key.s[1]), "PowerBasis")
    IN [a |-> a, a_s |-> a_s, oplog |-> <<Step("mul", a, key.s[1])>>]

\* generate_c0, the rest of the body for limb i: b = e - a*s + g_i*from, the
\* temporaries zeroized, then the flag and the representation of b
generate_c0_fold_plus(key, from, i, mask, e) ==
    LET b0 == PolySmall(ParCtx(key.par), "PowerBasis", e)
        b1 == PolyAdd(b0, mask.a_s)
        gi == get_garner(key.par.ciphertext_moduli, i)
        g_i_from == PolyScalarMul(gi, from)
        b2 == PolyAdd(b1, g_i_from)
        a_z == PolyZeroize(mask.a)
        a_s_z == PolyZeroize(mask.a_s)
        g_z == PolyZeroize(g_i_from)
        b == change_representation(allow_variable_time_computations(b2), "NttShoup")
    IN [b |-> b,
        freed |-> {Released("a", a_z), Released("a_s", a_s_z), Released("g_i_from", g_z)},
        oplog |-> mask.oplog \o <<Step("sub", b0, mask.a_s), Step("add", b1, g_i_from),
                                  Allowed("c0_i", <<a_z, a_s_z, g_z>>)>>]
generate_c0_fold(key, from, i, mask, e) ==
    LET b0 == PolySmall(ParCtx(key.par), "PowerBasis", e)
        b1 == PolySub(b0, mask.a_s)
        gi == get_garner(key.par.ciphertext_moduli, i)
        g_i_from == PolyScalarMul(gi, from)
        b2 == PolyAdd(b1, g_i_from)
        a_z == PolyZeroize(mask.a)
        a_s_z == PolyZeroize(mask.a_s)
        g_z == PolyZeroize(g_i_from)
        b == change_representation(allow_variable_time_computations(b2), "NttShoup")
    IN [b |-> b,
        freed |-> {Released("a", a_z), Released("a_s", a_s_z), Released("g_i_from", g_z)},
        oplog |-> mask.oplog \o <<Step("sub", b0, mask.a_s), Step("add", b1, g_i_from),
                                  Allowed("c0_i", <<a_z, a_s_z, g_z>>)>>]

\* the loop of generate_c0; es[i] is what the sampler hands back for limb i,
\* st = [c0, freed, oplog]
RECURSIVE generate_c0_loop(_, _, _, _, _, _)
generate_c0_loop(i, key, from, c1, es, st) ==
    IF i > Len(key.par.ciphertext_moduli) THEN [kind |-> "Ok"] @@ st
    ELSE
    LET mask == generate_c0_mask(key, c1[i])
    IN IF es[i] = SamplerErr
       THEN \* Poly::small(..)? returns early: a and a_s are dropped as they are
            [kind |-> "Err", err |-> "sampler", c0 |-> st.c0,
             freed |-> st.freed \cup {Released("a", mask.a), Released("a_s", mask.a_s)},
             oplog |-> st.oplog \o mask.oplog]
       ELSE LET f == generate_c0_fold(key, from, i, mask, es[i])
            IN generate_c0_loop(i + 1, key, from, c1, es,
                   [c0 |-> Append(st.c0, f.b),
                    freed |-> st.freed \cup f.freed,
                    oplog |-> st.oplog \o f.oplog])

\* KeySwitchingKey::generate_c0
generate_c0(key, from, c1, es) ==
    IF Len(c1) # Len(key.par.ciphertext_moduli)
    THEN [kind |-> "Err", err |-> "Invalid number of c1", c0 |-> <<>>,
          freed |-> {}, oplog |-> <<>>]
    ELSE IF ~RnsContextOk(key.par.ciphertext_moduli)
    THEN [kind |-> "Err", err |-> "rns", c0 |-> <<>>, freed |-> {}, oplog |-> <<>>]
    ELSE generate_c0_loop(1, key, from, c1, es, [c0 |-> <<>>, freed |-> {}, oplog |-> <<>>])

\* KeySwitchingKey::new; seed is what thread_rng fills in
KeySwitchingKey_new(key, from, seed, es) ==
    LET c1 == generate_c1(key.par, seed, Len(key.par.ciphertext_moduli))
        r == generate_c0(key, from, c1, es)
    IN IF r.kind # "Ok"
       THEN [kind |-> "Err", err |-> r.err, freed |-> r.freed, oplog |-> r.oplog]
       ELSE [kind |-> "Ok",
             key |-> [par |-> key.par, seed |-> seed, c0 |-> r.c0, c1 |-> c1],
             freed |-> r.freed, oplog |-> r.oplog]

\* key_switch, the body of the loop for one limb: acc = [acc_0, acc_1]
key_switch_limb_c0_twice(k, row, c0_i, c1_i, acc) ==
    LET c2_i == change_representation(
                    allow_variable_time_computations(
                        PolyFromValues(row, ParCtx(k.par), FALSE)), "Ntt")
    IN [acc_0 |-> PolyAdd(acc.acc_0, PolyMul(c2_i, c0_i)),
        acc_1 |-> PolyAdd(acc.acc_1, PolyMul(c2_i, c0_i))]
key_switch_limb(k, row, c0_i, c1_i, acc) ==
    LET c2_i == change_representation(
                    allow_variable_time_computations(
                        PolyFromValues(row, ParCtx(k.par), FALSE)), "Ntt")
    IN [acc_0 |-> PolyAdd(acc.acc_0, PolyMul(c2_i, c0_i)),
        acc_1 |-> PolyAdd(acc.acc_1, PolyMul(c2_i, c1_i))]

\* the loop of key_switch: izip! stops at the shortest of p's rows, c0 and c1
RECURSIVE key_switch_loop(_, _, _, _)
key_switch_loop(i, k, p, acc) ==
    IF i > Min(NLimbs(p), Min(Len(k.c0), Len(k.c1))) THEN [kind |-> "Ok"] @@ acc
    ELSE IF Len(p.coefficients[i]) # k.par.degree
    THEN [kind |-> "Err", err |-> "Math: invalid number of coefficients"] @@ acc
    ELSE key_switch_loop(i + 1, k, p,
             key_switch_limb(k, p.coefficients[i], k.c0[i], k.c1[i], acc))

\* KeySwitchingKey::key_switch
key_switch(k, p, acc_0, acc_1) ==
    key_switch_loop(1, k, p, [acc_0 |-> acc_0, acc_1 |-> acc_1])

\* Rq::from(&Poly): the representation and the coefficients, limb after limb;
\* the context and the variable-time flag are not part of the message
RqFrom(p) ==
    [representation |-> p.representation, degree |-> p.ctx.degree,
     coefficients |-> ToU64(p)]

\* Poly::try_convert_from(&Rq, ctx, None)
PolyFromRq(rq, ctx) ==
    IF rq.degree # ctx.degree \/ Len(rq.coefficients) # ctx.degree * Len(ctx.moduli)
    THEN [ok |-> FALSE, err |-> "Math: invalid coefficients"]
    ELSE [ok |-> TRUE,
          poly |-> MkPoly(ctx, rq.representation, FALSE,
                      [i \in 1..Len(ctx.moduli) |-> [j \in 1..ctx.degree |->
                          rq.coefficients[(i - 1) * ctx.degree + j] % ctx.moduli[i]]])]

\* From<&KeySwitchingKey> for KeySwitchingKeyProto
KeySwitchingKeyProto_from(value) ==
    [seed |-> value.seed, c0 |-> [i \in 1..Len(value.c0) |-> RqFrom(value.c0[i])]]

\* try_convert_from, one c0 of the message: converted, then flagged variable time
proto_c0_unflagged(c0i, par) ==
    PolyFromRq(c0i, ParCtx(par))
proto_c0(c0i, par) ==
    LET p == PolyFromRq(c0i, ParCtx(par))
    IN IF p.ok THEN [p EXCEPT !.poly = allow_variable_time_computations(p.poly)] ELSE p

\* KeySwitchingKey::try_convert_from(&KeySwitchingKeyProto, par)
try_convert_from_count_first(value, par) ==
    IF Len(value.c0) # Len(par.ciphertext_moduli)
    THEN [kind |-> "Err", err |-> "Invalid number of c0"]
    ELSE IF Len(value.seed) # SeedLen
    THEN [kind |-> "Err", err |-> "Invalid seed"]
    ELSE LET c1 == generate_c1(par, value.seed, Len(par.ciphertext_moduli))
             c0 == [i \in 1..Len(value.c0) |-> proto_c0(value.c0[i], par)]
         IN IF \E i \in 1..Len(c0) : ~c0[i].ok
            THEN [kind |-> "Err", err |-> "Math: invalid coefficients"]
            ELSE [kind |-> "Ok",
                  key |-> [par |-> par, seed |-> value.seed,
                           c0 |-> [i \in 1..Len(c0) |-> c0[i].poly], c1 |-> c1]]
try_convert_from(value, par) ==
    IF Len(value.seed) # SeedLen
    THEN [kind |-> "Err", err |-> "Invalid seed"]
    ELSE IF Len(value.c0) # Len(par.ciphertext_moduli)
    THEN [kind |-> "Err", err |-> "Invalid number of c0"]
    ELSE LET c1 == generate_c1(par, value.seed, Len(par.ciphertext_moduli))
             c0 == [i \in 1..Len(value.c0) |-> proto_c0(value.c0[i], par)]
         IN IF \E i \in 1..Len(c0) : ~c0[i].ok
            THEN [kind |-> "Err", err |-> "Math: invalid coefficients"]
            ELSE [kind |-> "Ok",
                  key |-> [par |-> par, seed |-> value.seed,
                           c0 |-> [i \in 1..Len(c0) |-> c0[i].poly], c1 |-> c1]]

-----------------------------------------------------------------------------
(* The key-switching operations as actions *)

\* the target polynomials, the sampler's outputs and the polynomials switched
KskFroms == {<<1, 0>>, <<0 - 2, 1>>}
KskErrs == {<<1, 0 - 2>>, <<0 - 2, 0>>, SamplerErr}
KskValues == {<<1, 0>>, <<4000, 9796>>}
KskChains == {<<97, 101>>, <<97>>, <<97, 101, 13>>}

InitKsk ==
    /\ mode = "ksk"
    /\ sk \in {SecretKey_new(c, ParK) : c \in SmallVecs(ParK)}
    /\ ksk = NoValue /\ ksin = NoValue /\ ksres = Idle
    /\ freed = {} /\ oplog = <<>>
    /\ pt = NoValue /\ ct = NoValue /\ res = Idle /\ err = NoValue
    /\ ntt = NoValue /\ arr = NoValue /\ nttres = Idle
    /\ ptx = NoValue /\ ptres = Idle

\* KeySwitchingKey::new(sk, from)
KskNew(fromv, seed, es) ==
    LET from == PolyFromValues(fromv, ParCtx(sk.par), FALSE)
        r == KeySwitchingKey_new(sk, from, seed, es)
    IN /\ mode = "ksk"
       /\ ksk = NoValue
       /\ ksk' = IF r.kind = "Ok" THEN r.key ELSE NoValue
       /\ ksin' = [from |-> from, e |-> es]
       /\ ksres' = [op |-> "new", kind |-> r.kind]
       /\ freed' = r.freed
       /\ oplog' = r.oplog
       /\ UNCHANGED <<mode, sk, skVars, ptVars, nttVars>>

\* ksk.key_switch(p, acc_0, acc_1) on zero accumulators.  The key is immutable:
\* what key_switch and try_convert_from do after another call is what they do
\* right after the key was generated, so they are taken from there
KeySwitch(p) ==
    /\ mode = "ksk"
    /\ ksk # NoValue
    /\ ksres.op = "new"
    /\ LET zero == PolyZero(ParCtx(ksk.par), "Ntt")
           r == key_switch(ksk, p, zero, zero)
       IN ksres' = [op |-> "key_switch", kind |-> r.kind, p |-> p,
                    acc_0 |-> r.acc_0, acc_1 |-> r.acc_1]
    /\ freed' = {}
    /\ oplog' = <<>>
    /\ UNCHANGED <<mode, sk, ksk, ksin, skVars, ptVars, nttVars>>

\* the messages a key is read back from: the key's own, its seed cut or
\* lengthened, its c0 list cut or lengthened
ProtoSeeds(seed) == {seed, SubSeq(seed, 1, Len(seed) - 1), Append(seed, 0)}
ProtoC0s(c0) == {c0, SubSeq(c0, 1, Len(c0) - 1), Append(c0, c0[1])}
Protos(k) ==
    LET own == KeySwitchingKeyProto_from(k)
    IN {[seed |-> sd, c0 |-> c] : sd \in ProtoSeeds(own.seed), c \in ProtoC0s(own.c0)}

\* KeySwitchingKey::try_convert_from(proto, par)
Convert(proto, par) ==
    /\ mode = "ksk"
    /\ ksk # NoValue
    /\ ksres.op = "new"
    /\ LET r == try_convert_from(proto, par)
       IN ksres' = [op |-> "try_convert_from", kind |-> r.kind, proto |-> proto, par |-> par,
                    err |-> IF r.kind = "Err" THEN r.err ELSE "",
                    key |-> IF r.kind = "Ok" THEN r.key ELSE NoValue]
    /\ freed' = {}
    /\ oplog' = <<>>
    /\ UNCHANGED <<mode, sk, ksk, ksin, skVars, ptVars, nttVars>>

-----------------------------------------------------------------------------
(* The plaintext operations as actions *)

EncodingKinds == {"Poly", "Simd"}
Encodings(par) == {Encoding(k, l) : k \in EncodingKinds, l \in 0..(NumLevels(par) - 1)}
Values(par) == [1..par.degree -> 0..(par.plaintext - 1)]

\* the plaintexts try_encode builds
Encoded(par) ==
    {try_encode(v, enc, par).pt :
        <<v, enc>> \in {x \in Values(par) \X Encodings(par) : try_encode(x[1], x[2], par).ok}}

InitPt ==
    /\ mode = "pt"
    /\ ptx \in Encoded(ParS) \cup Encoded(ParB)
    /\ ptres = Idle
    /\ sk = NoValue /\ pt = NoValue /\ ct = NoValue /\ res = Idle /\ err = NoValue
    /\ ntt = NoValue /\ arr = NoValue /\ nttres = Idle
    /\ freed = {} /\ oplog = <<>>
    /\ ksk = NoValue /\ ksin = NoValue /\ ksres = Idle

\* ptx.zeroize()
Zeroize ==
    /\ mode = "pt"
    /\ ptres' = [op |-> "zeroize", before |-> ptx]
    /\ ptx' = zeroize(ptx)
    /\ UNCHANGED <<mode, sk, skVars, freed, oplog, kskVars, nttVars>>

\* ptx.encoding = None, as the tests write it and as decryption leaves it
ClearEncoding ==
    /\ mode = "pt"
    /\ ptx.encoding # NoValue
    /\ ptx' = [ptx EXCEPT !.encoding = NoValue]
    /\ ptres' = Idle
    /\ UNCHANGED <<mode, sk, skVars, freed, oplog, kskVars, nttVars>>

\* Vec::<u64>::try_decode(&ptx, encoding)
Decode(encoding) ==
    /\ mode = "pt"
    /\ ptres' = [op |-> "try_decode", arg |-> encoding, r |-> try_decode(ptx, encoding)]
    /\ UNCHANGED <<mode, ptx, sk, skVars, freed, oplog, kskVars, nttVars>>

-----------------------------------------------------------------------------
(* The NTT operator on its own *)

\* the operators built and the arrays handed to them, entries in [0, p)
NttModuli == {5, 13, 17, 61}
NttOperators ==
    {NttOperator_new(p, size).v :
        <<p, size>> \in {x \in NttModuli \X {PlanDegree, NttSize} :
                            ModulusOk(x[1]) /\ NttOperator_new(x[1], x[2]) # NoValue}}
NttEntries(o) ==
    IF o.size = PlanDegree /\ o.p <= 13 THEN 0..(o.p - 1) ELSE {0, 1, o.p - 1}
NttArrays(o) == [1..o.size -> NttEntries(o)]

InitNtt ==
    /\ mode = "ntt"
    /\ ntt \in NttOperators
    /\ arr \in NttArrays(ntt)
    /\ nttres = Idle
    /\ sk = NoValue /\ pt = NoValue /\ ct = NoValue /\ res = Idle /\ err = NoValue
    /\ freed = {} /\ oplog = <<>>
    /\ ksk = NoValue /\ ksin = NoValue /\ ksres = Idle
    /\ ptx = NoValue /\ ptres = Idle

\* an operator keeps nothing between calls: a run makes two calls in a row
NttCalled(name) ==
    /\ mode = "ntt"
    /\ IF nttres = Idle THEN TRUE ELSE nttres.prev = Idle
    /\ nttres' = [op |-> name, before |-> arr,
                  prev |-> IF nttres = Idle THEN Idle
                           ELSE [op |-> nttres.op, before |-> nttres.before]]
    /\ UNCHANGED <<mode, ntt, sk, skVars, freed, oplog, kskVars, ptVars>>

\* op.forward(&mut arr)
Forward == NttCalled("forward") /\ arr' = forward(ntt.p, arr)

\* op.backward(&mut arr)
Backward == NttCalled("backward") /\ arr' = backward(ntt.p, arr)

\* op.forward_vt(arr.as_mut_ptr())
ForwardVt ==
    /\ NttCalled("forward_vt")
    /\ forward_vt(ntt.p, arr).kind = "Ok"
    /\ arr' = forward_vt(ntt.p, arr).a

\* op.backward_vt(arr.as_mut_ptr())
BackwardVt == NttCalled("backward_vt") /\ arr' = backward_vt(ntt.p, arr)

\* op.reduce3_vt(a) for a value below 4p
Reduce3(a) ==
    /\ mode = "ntt"
    /\ nttres = Idle
    /\ nttres' = [op |-> "reduce3_vt", a |-> a, r |-> reduce3_vt(ntt.p, a),
                  before |-> arr, prev |-> Idle]
    /\ UNCHANGED <<mode, ntt, arr, sk, skVars, freed, oplog, kskVars, ptVars>>

-----------------------------------------------------------------------------
(* Specifications *)

Init ==
    /\ InitSk
    /\ ksk = NoValue /\ ksin = NoValue /\ ksres = Idle
    /\ ptx = NoValue /\ ptres = Idle
    /\ ntt = NoValue /\ arr = NoValue /\ nttres = Idle

NextSk ==
    \/ \E value \in [1..ParA.degree -> 0..(ParA.plaintext - 1)], seed \in Seeds,
          e \in SmallVecs(ParA) : Encrypt(value, seed, e) /\ UNCHANGED <<kskVars, ptVars, nttVars>>
    \/ \E par \in {ParA, ParB}, n \in 2..MaxPolys :
          Receive(par, n) /\ UNCHANGED <<kskVars, ptVars, nttVars>>
    \/ Decrypt /\ UNCHANGED <<kskVars, ptVars, nttVars>>
    \/ MeasureNoise /\ UNCHANGED <<kskVars, ptVars, nttVars>>

NextKsk ==
    \/ \E fromv \in KskFroms, seed \in Seeds, es \in [1..NumLevels(ParK) -> KskErrs] :
          KskNew(fromv, seed, es)
    \/ \E v \in KskValues, chain \in KskChains :
          KeySwitch(PolyFromValues(v, Context(ParK.degree, chain), FALSE))
    \/ /\ ksk # NoValue
       /\ \E proto \in Protos(ksk), par \in {ParK, ParK1} : Convert(proto, par)

Next == NextSk

\* the secret-key operations
Spec == Init /\ [][Next]_vars

NextPt ==
    \/ Zeroize
    \/ ClearEncoding
    \/ \E encoding \in {NoValue} \cup {Some(e) : e \in Encodings(ParS)} : Decode(encoding)

\* the key-switching operations
SpecKsk == InitKsk /\ [][NextKsk]_vars

\* the plaintext operations
SpecPt == InitPt /\ [][NextPt]_vars

NextNtt ==
    \/ Forward
    \/ Backward
    \/ ForwardVt
    \/ BackwardVt
    \/ \E a \in 0..(4 * ntt.p - 1) : Reduce3(a)

\* the NTT operator
SpecNtt == InitNtt /\ [][NextNtt]_vars

\* a run of any one of the three components
InitAll == Init \/ InitKsk \/ InitPt
NextAll == NextSk \/ NextKsk \/ NextPt
SpecAll == InitAll /\ [][NextAll]_vars

-----------------------------------------------------------------------------
(* C1: a plaintext encrypted under a secret key and decrypted with the same   *)
(* key comes back: try_decrypt succeeds and its plaintext equals the one      *)
(* encrypted under Plaintext equality, its encoding being unset.              *)
RoundTrip ==
    (res.op = "try_decrypt" /\ pt # NoValue) =>
        /\ res.kind = "Ok"
        /\ PlaintextEq(res.pt, pt)
        /\ res.pt.par = pt.par
        /\ res.pt.value = pt.value
        /\ res.pt.encoding = NoValue

RoundTripWitness ==
    /\ res.op = "try_decrypt" /\ pt # NoValue /\ res.kind = "Ok"
    /\ \E j \in DOMAIN pt.value : pt.value[j] # 0
    /\ ~IsZeroPoly(sk.s[1])

-----------------------------------------------------------------------------
(* C2: after key_switch(p) on zero accumulators, with a key generated for    *)
(* the secret s and the target from and a p of as many limbs as the key,      *)
(* acc0 + acc1*s - p*from is the noise term, the sum over the limbs i of      *)
(* column_i(p) * e_i; its coefficients are, in balanced form, at most         *)
(* degree * 2*variance * sum_i (q_i - 1).                                     *)

\* column i of p lifted to the key's ring, in NTT form
KsColumn(k, p, i) ==
    change_representation(PolyFromValues(p.coefficients[i], ParCtx(k.par), FALSE), "Ntt")

RECURSIVE KsNoise(_, _, _, _)
KsNoise(k, p, es, i) ==
    IF i = 0 THEN PolyZero(ParCtx(k.par), "Ntt")
    ELSE PolyAdd(KsNoise(k, p, es, i - 1),
                 PolyMul(KsColumn(k, p, i), PolySmall(ParCtx(k.par), "Ntt", es[i])))

\* acc0 + acc1*s - p*from
KsDefect ==
    PolySub(PolyAdd(ksres.acc_0, PolyMul(ksres.acc_1, sk.s[1])),
            PolyMul(change_representation(ksres.p, "Ntt"),
                    change_representation(ksin.from, "Ntt")))

KsNoiseBound(par) ==
    par.degree * 2 * par.variance *
        SumSeq([i \in 1..NumLevels(par) |-> par.ciphertext_moduli[i] - 1])

Abs(x) == IF x < 0 THEN 0 - x ELSE x

KsSwitched ==
    /\ mode = "ksk" /\ ksres.op = "key_switch"
    /\ NLimbs(ksres.p) = Len(ksk.c0)

KeySwitchCorrect ==
    KsSwitched =>
        /\ ksres.kind = "Ok"
        /\ KsDefect.coefficients = KsNoise(ksk, ksres.p, ksin.e, Len(ksk.c0)).coefficients
        /\ LET d == ToBigUint(change_representation(KsDefect, "PowerBasis"))
               Q == RnsModulus(ksk.par.ciphertext_moduli)
           IN \A j \in DOMAIN d : Abs(Center(d[j], Q)) <= KsNoiseBound(ksk.par)

KeySwitchCorrectWitness ==
    /\ KsSwitched
    /\ ~IsZeroPoly(KsDefect)
    /\ ~IsZeroPoly(sk.s[1])
    /\ ksin.e[1] # ksin.e[2]

-----------------------------------------------------------------------------
(* C3: key_switch called with a polynomial whose number of limbs differs     *)
(* from the key's returns Err.                                                *)
KeySwitchRejectsLimbMismatch ==
    (mode = "ksk" /\ ksres.op = "key_switch" /\ NLimbs(ksres.p) # Len(ksk.c0))
        => ksres.kind = "Err"

-----------------------------------------------------------------------------
(* C4: try_convert_from returns Err "Invalid seed" and builds no key when the *)
(* seed of the message has not the seed length, whatever its c0 list; with a  *)
(* seed of the right length it returns Err "Invalid number of c0" and builds  *)
(* no key when the c0 list is not as long as the parameters' moduli.          *)
ConvertRejects ==
    (mode = "ksk" /\ ksres.op = "try_convert_from") =>
        /\ Len(ksres.proto.seed) # SeedLen
              => ksres.kind = "Err" /\ ksres.err = "Invalid seed" /\ ksres.key = NoValue
        /\ (Len(ksres.proto.seed) = SeedLen
              /\ Len(ksres.proto.c0) # Len(ksres.par.ciphertext_moduli))
              => ksres.kind = "Err" /\ ksres.err = "Invalid number of c0"
                    /\ ksres.key = NoValue

\* a message with both a bad seed and a bad c0 count was refused
ConvertRejectsWitness ==
    /\ mode = "ksk" /\ ksres.op = "try_convert_from"
    /\ Len(ksres.proto.seed) # SeedLen
    /\ Len(ksres.proto.c0) # Len(ksres.par.ciphertext_moduli)
    /\ ksres.kind = "Err"

-----------------------------------------------------------------------------
(* C5: a key generated by KeySwitchingKey::new, written to its message and   *)
(* read back under the same parameters, is the same key: same parameters,     *)
(* seed, c0 list and c1 list.                                                 *)
ConvertedOwn ==
    /\ mode = "ksk" /\ ksres.op = "try_convert_from"
    /\ ksres.proto = KeySwitchingKeyProto_from(ksk)
    /\ ksres.par = ksk.par

ProtoRoundTrip ==
    ConvertedOwn =>
        /\ ksres.kind = "Ok"
        /\ ksres.key = ksk
        /\ ksres.key.c1 = generate_c1(ksk.par, ksk.seed, Len(ksk.c0))

ProtoRoundTripWitness ==
    /\ ConvertedOwn
    /\ ksres.kind = "Ok"
    /\ \E i \in 1..Len(ksk.c0) : ~IsZeroPoly(ksk.c0[i])

-----------------------------------------------------------------------------
(* C6: try_decrypt of a ciphertext whose parameter set is not the key's      *)
(* returns Err "Incompatible BFV parameters" and leaves the key as it was.    *)
DecryptRejectsForeign ==
    (mode = "sk" /\ res.op = "try_decrypt" /\ ct.par # res.before.par) =>
        /\ res.kind = "Err"
        /\ res.err = "DefaultError: Incompatible BFV parameters"
        /\ sk = res.before

\* a foreign ciphertext long enough to ask for a power the key has not cached
DecryptRejectsForeignWitness ==
    /\ mode = "sk" /\ res.op = "try_decrypt" /\ ct.par # res.before.par
    /\ Len(ct.c) = 4
    /\ Len(sk.s) = 2

-----------------------------------------------------------------------------
(* C7: every exit of generate_c0, try_encrypt, try_decrypt and measure_noise *)
(* releases its secret-dependent temporaries zero-filled.                     *)
ReleasedZeroFilled == \A f \in freed : f.zero

-----------------------------------------------------------------------------
(* C8: the arithmetic steps of key generation, encryption, decryption and    *)
(* noise measurement that involve the secret key run on operands whose        *)
(* variable-time flag is unset, the decryption accumulator included; the flag *)
(* is set on an output only once the temporaries are zeroized, and nothing is *)
(* folded into an output after its flag was set.                              *)
SecretSteps == {"mul", "sub", "add", "result"}

ConstantTimeUntilPublic ==
    \A k \in DOMAIN oplog :
        /\ oplog[k].op \in SecretSteps => ~oplog[k].vt
        /\ oplog[k].op = "allow_vt" =>
              /\ oplog[k].wiped
              /\ \A m \in (k + 1)..Len(oplog) :
                    oplog[m].op \in {"sub", "add"} =>
                        \E j \in (k + 1)..(m - 1) : oplog[j].op = "mul"

\* a key-switching key was generated from a non-zero secret key and its c0
\* are flagged
ConstantTimeUntilPublicWitness ==
    /\ mode = "ksk" /\ ksk # NoValue /\ ksres.op = "new"
    /\ ~IsZeroPoly(sk.s[1])
    /\ \E k \in DOMAIN oplog : oplog[k].op = "allow_vt"
    /\ \A i \in 1..Len(ksk.c0) : ksk.c0[i].allow_variable_time_computations

-----------------------------------------------------------------------------
(* C9: a plaintext encoded with an encoding enc is, after zeroize, equal to   *)
(* Plaintext::zero(enc, par): its values are zeros, its NTT polynomial is the *)
(* zero polynomial, its parameters, encoding and level are what they were.    *)
Zeroized == mode = "pt" /\ ptres.op = "zeroize" /\ ptres.before.encoding # NoValue

ZeroizeIsZero ==
    Zeroized =>
        LET z == Plaintext_zero(ptres.before.encoding.v, ptres.before.par)
        IN /\ z.ok
           /\ PlaintextEq(ptx, z.pt)
           /\ ptx.value = [j \in 1..ptx.par.degree |-> 0]
           /\ ptx.poly_ntt = z.pt.poly_ntt
           /\ ptx.par = ptres.before.par
           /\ ptx.encoding = ptres.before.encoding
           /\ ptx.level = ptres.before.level

ZeroizeIsZeroWitness ==
    /\ Zeroized
    /\ \E j \in DOMAIN ptres.before.value : ptres.before.value[j] # 0
    /\ ~IsZeroPoly(ptres.before.poly_ntt)
    /\ ptres.before.level = 1

-----------------------------------------------------------------------------
(* C10: try_decode(pt, encoding): with no encoding on either side it is Err   *)
(* UnspecifiedInput; with two that differ it is Err EncodingMismatch of the   *)
(* argument and the stored one; otherwise it decodes with the one given:      *)
(* Poly hands back the values, Simd the transformed values in slot order, or  *)
(* Err EncodingNotSupported when the parameters have no NTT operator.         *)
Decoded == mode = "pt" /\ ptres.op = "try_decode"

\* the slots of a value vector: the transform read in slot order
SimdSlots(p) ==
    LET w == PlanFwd(p.value, p.par.plaintext)
        map == matrix_reps_index_map(p.par)
    IN [i \in 1..p.par.degree |-> w[map[i - 1] + 1]]

DecodeResolves ==
    Decoded =>
        LET a == ptres.arg
            e == ptx.encoding
            r == ptres.r
            enc == IF e # NoValue THEN e.v ELSE a.v
        IN IF a = NoValue /\ e = NoValue
           THEN ~r.ok /\ r.err = <<"UnspecifiedInput", "No encoding specified">>
           ELSE IF a # NoValue /\ e # NoValue /\ a.v # e.v
           THEN ~r.ok /\ r.err = <<"EncodingMismatch", a.v, e.v>>
           ELSE IF enc.encoding = "Poly"
           THEN r.ok /\ r.value = ptx.value
           ELSE IF ~HasOp(ptx.par)
           THEN ~r.ok /\ r.err = <<"EncodingNotSupported", "Simd">>
           ELSE r.ok /\ r.value = SimdSlots(ptx)

\* the stored encoding and the argument differ in level only
DecodeResolvesWitness ==
    /\ Decoded
    /\ ptres.arg # NoValue /\ ptx.encoding # NoValue
    /\ ptres.arg.v.encoding = ptx.encoding.v.encoding
    /\ ptres.arg.v.level # ptx.encoding.v.level
    /\ ~ptres.r.ok

-----------------------------------------------------------------------------
(* C11: for an operator of modulus p and size n and an array of n entries in *)
(* [0, p), backward after forward gives the array back, and so does          *)
(* backward_vt after forward_vt.                                              *)
NttThereAndBack ==
    /\ mode = "ntt" /\ nttres # Idle /\ nttres.prev # Idle
    /\ <<nttres.prev.op, nttres.op>> \in
          {<<"forward", "backward">>, <<"forward_vt", "backward_vt">>}

NttRoundTrip == NttThereAndBack => arr = nttres.prev.before

\* an array of the larger size that the transform changes
NttRoundTripWitness ==
    /\ NttThereAndBack
    /\ ntt.size = NttSize
    /\ nttres.before # nttres.prev.before
    /\ \E i, j \in DOMAIN arr : arr[i] # arr[j]

-----------------------------------------------------------------------------
(* C13: for a modulus p with 4p inside the word range and a value a below 4p, *)
(* reduce3_vt(a) is a mod p; forward_vt leaves every entry in [0, p) and the  *)
(* array forward leaves on the same input.                                    *)
Reduce3Reduces ==
    (mode = "ntt" /\ nttres # Idle) =>
        /\ nttres.op = "reduce3_vt" =>
              /\ 4 * ntt.p < Word
              /\ nttres.r = [kind |-> "Ok", v |-> nttres.a % ntt.p]
        /\ nttres.op = "forward_vt" =>
              /\ \A i \in DOMAIN arr : arr[i] \in 0..(ntt.p - 1)
              /\ arr = forward(ntt.p, nttres.before)

\* a value in [3p, 4p) for the largest modulus: both subtractions are made
Reduce3ReducesWitness ==
    /\ mode = "ntt" /\ nttres # Idle
    /\ nttres.op = "reduce3_vt"
    /\ nttres.a >= 3 * ntt.p
    /\ \A q \in NttModuli : q <= ntt.p

-----------------------------------------------------------------------------
(* C12: through every run of try_decrypt and measure_noise the power list of  *)
(* the key has at least two entries, entry j being the j-th power of s; a     *)
(* call keeps the entries it found, appends each missing power once, as the   *)
(* last entry times s, leaves at least k - 1 entries after a ciphertext of k  *)
(* polynomials, and try_decrypt on at most 3 polynomials leaves the list as   *)
(* it was.                                                                    *)

\* the product of two coefficient vectors modulo x^n + 1 and q
NegacyclicProduct(a, b, q) ==
    LET n == Len(a)
    IN [k \in 1..n |->
          (SumSeq([i \in 1..n |->
              IF i <= k THEN a[i] * b[k - i + 1] ELSE 0 - a[i] * b[n + k - i + 1]])) % q]

RECURSIVE SecretPower(_, _, _)
SecretPower(coeffs, j, q) ==
    IF j = 1 THEN [i \in DOMAIN coeffs |-> coeffs[i] % q]
    ELSE NegacyclicProduct(SecretPower(coeffs, j - 1, q), SecretPower(coeffs, 1, q), q)

PowerListCalled == mode = "sk" /\ res.op \in {"try_decrypt", "measure_noise"}

PowerListKept ==
    mode = "sk" =>
        /\ Len(sk.s) >= 2
        /\ \A j \in 1..Len(sk.s) : \A l \in 1..NumLevels(sk.par) :
              change_representation(sk.s[j], "PowerBasis").coefficients[l]
                  = SecretPower(sk.s_coefficients, j, sk.par.ciphertext_moduli[l])
        /\ PowerListCalled =>
              LET b == res.before.s
                  k == Len(ct.c)
              IN /\ Len(sk.s) >= Len(b)
                 /\ SubSeq(sk.s, 1, Len(b)) = b
                 /\ \A j \in (Len(b) + 1)..Len(sk.s) :
                       sk.s[j] = PolyMul(sk.s[j - 1], sk.s[1])
                 /\ res.kind = "Ok" => Len(sk.s) = Max(Len(b), k - 1)
                 /\ (res.op = "try_decrypt" /\ k <= 3) => sk.s = b

\* a call that appended a power of a key with two non-zero coefficients
PowerListKeptWitness ==
    /\ PowerListCalled
    /\ Len(sk.s) > Len(res.before.s)
    /\ \A i \in DOMAIN sk.s_coefficients : sk.s_coefficients[i] # 0

-----------------------------------------------------------------------------
(* C14: measure_noise(ct) is the largest, over the coefficients v modulo Q of *)
(* c0 + sum_i c_i * s^i - scaled(decrypt(ct)), of the smaller of the bit      *)
(* lengths of v and of Q - v; for the ciphertext try_encrypt made with the    *)
(* error e that polynomial is e and the result is the bit length of the       *)
(* largest |e_j|; when try_decrypt fails it fails with the same error.        *)
NoiseMeasured == mode = "sk" /\ res.op = "measure_noise"

\* s^i as a polynomial in NTT form, from the coefficients of the key
SecretPowerPoly(key, i) ==
    change_representation(
        MkPoly(ParCtx(key.par), "PowerBasis", FALSE,
               [l \in 1..NumLevels(key.par) |->
                   SecretPower(key.s_coefficients, i, key.par.ciphertext_moduli[l])]),
        "Ntt")

RECURSIVE NoiseSum(_, _, _)
NoiseSum(key, c, i) ==
    IF i = 1 THEN c[1]
    ELSE PolyAdd(NoiseSum(key, c, i - 1), PolyMul(c[i], SecretPowerPoly(key, i - 1)))

\* the coefficients modulo Q of c0 + sum_i c_i * s^i - m
NoiseCoefficients(key, cipher, m) ==
    ToBigUint(change_representation(
        PolySub(NoiseSum(key, cipher.c, Len(cipher.c)), m), "PowerBasis"))

BalancedBits(v, Q) == IF bits(v) <= bits(Q - v) THEN bits(v) ELSE bits(Q - v)
LargestOf(S) == CHOOSE m \in S : \A x \in S : x <= m

MeasuresNoise ==
    NoiseMeasured =>
        LET key == res.before
            dec == try_decrypt(key, ct)
            Q == RnsModulus(key.par.ciphertext_moduli)
        IN IF dec.kind # "Ok"
           THEN res.kind = "Err" /\ res.err = dec.err
           ELSE LET v == NoiseCoefficients(key, ct, to_poly(dec.pt).poly)
                IN /\ res.kind = "Ok"
                   /\ res.noise = LargestOf({BalancedBits(v[j], Q) : j \in DOMAIN v})
                   /\ err # NoValue =>
                         /\ v = [j \in DOMAIN v |-> err[j] % Q]
                         /\ res.noise = bits(LargestOf({Abs(err[j]) : j \in DOMAIN err}))

\* the noise of a fresh ciphertext whose error has a negative coefficient
MeasuresNoiseWitness ==
    /\ NoiseMeasured
    /\ err # NoValue
    /\ \E j \in DOMAIN err : err[j] < 0
    /\ res.kind = "Ok" /\ res.noise > 0

-----------------------------------------------------------------------------
(* C15: Plaintext equality is an equivalence: over the plaintext under use    *)
(* and the plaintexts try_encode builds with its parameters and value it is   *)
(* reflexive, symmetric and transitive.                                       *)
SameValued(p) == {x \in Encoded(p.par) : x.value = p.value} \cup {p}

PlaintextEqIsEquivalence ==
    mode = "pt" =>
        LET P == SameValued(ptx)
        IN /\ \A a \in P : PlaintextEq(a, a)
           /\ \A a, b \in P : PlaintextEq(a, b) => PlaintextEq(b, a)
           /\ \A a, b, c \in P :
                 (PlaintextEq(a, b) /\ PlaintextEq(b, c)) => PlaintextEq(a, c)

====
